---- MODULE Spec2Model ----
(***************************************************************************)
(* Control flow of paccmann_chemistry/models.py: StackGRUEncoder,          *)
(* StackGRUDecoder and TeacherVAE.                                         *)
(*                                                                         *)
(* Tensors of token indices are sequences; one time step of a token tensor *)
(* is a "row", a sequence holding one token per batch element.  The        *)
(* stack-RNN cell (paccmann_chemistry/stack_rnn.py) and the learned linear *)
(* layers are deterministic functions of their arguments; the cell is      *)
(* modelled by the history of what it was fed, the linear layers by a      *)
(* fixed numeric digest of their argument.  Latent tensors live on a heap  *)
(* so that in-place operations and aliasing are visible.  log-variances    *)
(* are counted in units of 2*ln(2), so exp(0.5*logvar) is a power of 2.    *)
(* The training path runs on a batch of one (the batch elements do not     *)
(* interact there); generation runs on batches of 1..MaxBatch.  After a    *)
(* call the model is idle again and may make the next call.                *)
(***************************************************************************)
EXTENDS Integers, Sequences, FiniteSets, TLC

\* ---------------------------------------------------------------- bounds
VocabSize == 2
MaxSeqLen == 2
MaxBatch == 2
MaxPrime == 2
MaxGenLen == 2

\* ------------------------------------------------------- the configuration
\* params['n_layers'] and params['latent_dim'] of the networks modelled.
NLayers == 2
LatentDim == 1

\* ------------------------------------------------- fixed "learned" weights
MuMod == 3
LogvarMod == 2
CritMod == 3

Vocab == 1..VocabSize
Rows(n) == [1..n -> Vocab]
TrainRows == Rows(1)
SeqsUpTo(S, n) == UNION {[1..k -> S] : k \in 0..n}
Min(a, b) == IF a <= b THEN a ELSE b

RECURSIVE SumSeq(_)
SumSeq(s) == IF s = <<>> THEN 0 ELSE Head(s) + SumSeq(Tail(s))

RECURSIVE SumRows(_)
SumRows(rs) == IF rs = <<>> THEN 0 ELSE SumSeq(Head(rs)) + 2 * SumRows(Tail(rs))

RECURSIVE Pow2(_)
Pow2(k) == IF k = 0 THEN 1 ELSE 2 * Pow2(k - 1)

\* ------------------------------------------------------ the stack-RNN cell
NoValue == <<>>

\* StackGRU.init_hidden: a zero hidden state for every layer.
InitHidden(layers) ==
    [layers |-> layers, init |-> <<>>, fed |-> <<>>, read |-> <<>>]

\* StackGRU.init_stack: an empty stack memory.
InitStack == [pushed |-> <<>>]

\* StackGRU.forward: (output, hidden, stack) from (input, hidden, stack).
\* The new hidden state depends on the input, the old hidden state and the
\* stack that was read; the new stack on the old stack and the input.
Cell(input, hidden, stack) ==
    LET h == [hidden EXCEPT !.fed = Append(@, input),
                            !.read = Append(@, Len(stack.pushed))]
        s == [pushed |-> Append(stack.pushed, input)]
    IN [output |-> [fed |-> h.fed, read |-> h.read, init |-> h.init],
        hidden |-> h,
        stack |-> s]

Digest(t) == SumRows(t.fed) + SumSeq(t.read) + SumSeq(t.init)

\* StackGRU.criterion: the cross-entropy of one output against one target row.
Criterion(output, target) == 1 + ((Digest(output) + SumSeq(target)) % CritMod)

\* ------------------------------------------------------------ the encoder
\* hidden.view(n_layers, n_directions, ...)[-1]: the layer that is kept.
EncoderKeptLayer_first(layers) == 1
EncoderKeptLayer(layers) == layers

LayerOf(hidden, layer) == [layer |-> layer, of |-> hidden]

\* nn.Linear hidden_to_mu / hidden_to_logvar applied to the kept layer.
HiddenToMu(sel) ==
    [d \in 1..LatentDim |-> (Digest(sel.of) + d * sel.layer) % MuMod]
HiddenToLogvar(sel) ==
    [d \in 1..LatentDim |-> (Digest(sel.of) + d + sel.layer) % LogvarMod]

\* The hidden state and stack after the cell has run over rows 1..k of seq.
RECURSIVE RunCell(_, _, _, _)
RunCell(seq, k, hidden, stack) ==
    IF k = 0 THEN [hidden |-> hidden, stack |-> stack, output |-> NoValue]
    ELSE LET p == RunCell(seq, k - 1, hidden, stack)
         IN Cell(seq[k], p.hidden, p.stack)

\* ---------------------------------------------------- latent tensors, heap
TensorMul(a, b) == [d \in 1..LatentDim |-> a[d] * b[d]]
TensorAdd(a, b) == [d \in 1..LatentDim |-> a[d] + b[d]]
TensorExpHalf(lv) == [d \in 1..LatentDim |-> Pow2(lv[d])]
\* torch.randn_like: each element is a negative, a zero or a positive draw.
EpsDraws == {-1, 0, 1}
EpsVals == [1..LatentDim -> EpsDraws]
Zeros == [d \in 1..LatentDim |-> 0]

\* TeacherVAE.reparameterize on the heap h: std, eps and eps.mul(std) are
\* new tensors, add_ writes into the receiver.
Reparameterize_inplace_mu(h, mu_ref, logvar_ref, e) ==
    LET std == Len(h) + 1
        epsr == Len(h) + 2
        prod == Len(h) + 3
        h1 == Append(h, TensorExpHalf(h[logvar_ref]))
        h2 == Append(h1, e)
        h3 == Append(h2, TensorMul(h2[epsr], h2[std]))
        h4 == [h3 EXCEPT ![mu_ref] = TensorAdd(@, h3[prod])]
    IN [heap |-> h4, ret |-> mu_ref]
Reparameterize(h, mu_ref, logvar_ref, e) ==
    LET std == Len(h) + 1
        epsr == Len(h) + 2
        prod == Len(h) + 3
        h1 == Append(h, TensorExpHalf(h[logvar_ref]))
        h2 == Append(h1, e)
        h3 == Append(h2, TensorMul(h2[epsr], h2[std]))
        h4 == [h3 EXCEPT ![prod] = TensorAdd(@, h3[mu_ref])]
    IN [heap |-> h4, ret |-> prod]

\* ------------------------------------------------------------ the decoder
\* nn.Linear latent_to_hidden applied to latent_z.repeat(n_layers * n_dir).
LatentToHidden(z, layers) ==
    [layers |-> layers, init |-> z, fed |-> <<>>, read |-> <<>>]

\* The latent forward passes to decode.
ForwardDecodeLatent_mu(mu_ref, z_ref) == mu_ref
ForwardDecodeLatent(mu_ref, z_ref) == z_ref

\* zip(input_seq, target_seq): the number of pairs the loop visits.
ZipLen(a, b) == Min(Len(a), Len(b))

\* The stack decoder_train_step hands to the cell at each position.
DecoderStepStack_fresh(stack) == InitStack
DecoderStepStack(stack) == stack

\* --------------------------------------------------------------- the state
VARIABLES
    pc,            \* position in the running call
    n_layers,      \* params['n_layers'] of encoder and decoder
    input_seq, decoder_seq, target_seq,      \* arguments of forward
    enc_hidden, enc_stack, enc_i,            \* encoder_train_step locals
    enc_out,       \* the values encoder_train_step returned
    heap, mu, logvar, latent_z, eps,         \* latent tensors (references)
    dec_latent, dec_hidden, dec_stack, dec_i, loss, loss_terms,
    trace,         \* the stages forward has entered, in order
    fwd_ret,       \* what forward returned
    gen_latent, prime_input, end_token, generate_len,   \* arguments of generate
    batch_size, gen_hidden, gen_stack, prime_rows,      \* generate_from_latent
    generated_seq, input_token, prime_i, step,          \* locals
    cell_log,      \* every cell call of generate_from_latent, in order
    sampled,       \* every top_idx drawn, in order
    generated_batch, molecule_gen, molecule_iter,       \* generate locals
    gen_ret        \* how generate ended

fwdArgs == <<input_seq, decoder_seq, target_seq>>
encVars == <<enc_hidden, enc_stack, enc_i, enc_out>>
latVars == <<heap, mu, logvar, latent_z, eps>>
decVars == <<dec_latent, dec_hidden, dec_stack, dec_i, loss, loss_terms>>
fwdVars == <<fwdArgs, encVars, latVars, decVars, trace, fwd_ret>>
genArgs == <<gen_latent, prime_input, end_token, generate_len>>
gflVars == <<batch_size, gen_hidden, gen_stack, prime_rows, generated_seq,
             input_token, prime_i, step, cell_log, sampled>>
genLocals == <<generated_batch, molecule_gen, molecule_iter, gen_ret>>
genVars == <<genArgs, gflVars, genLocals>>
vars == <<pc, n_layers, fwdVars, genVars>>

FwdCleared ==
    /\ input_seq = NoValue /\ decoder_seq = NoValue /\ target_seq = NoValue
    /\ enc_hidden = NoValue /\ enc_stack = NoValue /\ enc_i = 0
    /\ enc_out = NoValue
    /\ heap = <<>> /\ mu = 0 /\ logvar = 0 /\ latent_z = 0 /\ eps = NoValue
    /\ dec_latent = 0 /\ dec_hidden = NoValue /\ dec_stack = NoValue
    /\ dec_i = 0 /\ loss = 0 /\ loss_terms = <<>>
    /\ trace = <<>> /\ fwd_ret = NoValue

GenCleared ==
    /\ gen_latent = NoValue /\ prime_input = NoValue /\ end_token = 0
    /\ generate_len = 0
    /\ batch_size = 0 /\ gen_hidden = NoValue /\ gen_stack = NoValue
    /\ prime_rows = NoValue /\ generated_seq = NoValue
    /\ input_token = NoValue /\ prime_i = 0 /\ step = 0
    /\ cell_log = <<>> /\ sampled = <<>>
    /\ generated_batch = NoValue /\ molecule_gen = NoValue
    /\ molecule_iter = NoValue /\ gen_ret = NoValue

GenDiscard ==
    /\ gen_latent' = NoValue /\ prime_input' = NoValue /\ end_token' = 0
    /\ generate_len' = 0
    /\ batch_size' = 0 /\ gen_hidden' = NoValue /\ gen_stack' = NoValue
    /\ prime_rows' = NoValue /\ generated_seq' = NoValue
    /\ input_token' = NoValue /\ prime_i' = 0 /\ step' = 0
    /\ cell_log' = <<>> /\ sampled' = <<>>
    /\ generated_batch' = NoValue /\ molecule_gen' = NoValue
    /\ molecule_iter' = NoValue /\ gen_ret' = NoValue

\* leaving a call discards its frames: every local is unset again.
FwdDiscard ==
    /\ input_seq' = NoValue /\ decoder_seq' = NoValue /\ target_seq' = NoValue
    /\ enc_hidden' = NoValue /\ enc_stack' = NoValue /\ enc_i' = 0
    /\ enc_out' = NoValue
    /\ heap' = <<>> /\ mu' = 0 /\ logvar' = 0 /\ latent_z' = 0
    /\ eps' = NoValue
    /\ dec_latent' = 0 /\ dec_hidden' = NoValue /\ dec_stack' = NoValue
    /\ dec_i' = 0 /\ loss' = 0 /\ loss_terms' = <<>>
    /\ trace' = <<>> /\ fwd_ret' = NoValue

Init ==
    /\ pc = "idle"
    /\ n_layers = NLayers
    /\ FwdCleared
    /\ GenCleared

\* ------------------------------------------------------ TeacherVAE.forward
\* decoder_seq and target_seq both have the documented shape
\* [max batch sequence length + 1, batch_size]: the same number of rows.
ForwardCall ==
    /\ pc = "idle"
    /\ input_seq' \in SeqsUpTo(TrainRows, MaxSeqLen)
    /\ \E k \in 0..MaxSeqLen :
         /\ decoder_seq' \in [1..k -> TrainRows]
         /\ target_seq' \in [1..k -> TrainRows]
    /\ pc' = "encode"
    /\ UNCHANGED <<n_layers, encVars, latVars, decVars, trace, fwd_ret>>
    /\ UNCHANGED genVars

\* forward -> encode -> encoder_train_step: fresh hidden state and stack.
EncodeInit ==
    /\ pc = "encode"
    /\ trace' = Append(trace, "encode")
    /\ enc_hidden' = InitHidden(n_layers)
    /\ enc_stack' = InitStack
    /\ enc_i' = 1
    /\ pc' = "enc_loop"
    /\ UNCHANGED <<n_layers, fwdArgs, enc_out, latVars, decVars, fwd_ret>>
    /\ UNCHANGED genVars

\* one iteration of "for input_entry in input_seq".
EncodeStep ==
    /\ pc = "enc_loop"
    /\ enc_i <= Len(input_seq)
    /\ LET r == Cell(input_seq[enc_i], enc_hidden, enc_stack)
       IN /\ enc_hidden' = r.hidden
          /\ enc_stack' = r.stack
    /\ enc_i' = enc_i + 1
    /\ UNCHANGED <<pc, n_layers, fwdArgs, enc_out, latVars, decVars,
                   trace, fwd_ret>>
    /\ UNCHANGED genVars

\* after the loop: keep the last layer, project to mu and logvar, return.
EncodeProject ==
    /\ pc = "enc_loop"
    /\ enc_i > Len(input_seq)
    /\ LET sel == LayerOf(enc_hidden, EncoderKeptLayer(n_layers))
           m == HiddenToMu(sel)
           lv == HiddenToLogvar(sel)
       IN /\ heap' = <<m, lv>>
          /\ enc_out' = [mu |-> m, logvar |-> lv, from |-> sel]
    /\ mu' = 1
    /\ logvar' = 2
    /\ pc' = "reparameterize"
    /\ UNCHANGED <<n_layers, fwdArgs, enc_hidden, enc_stack, enc_i,
                   latent_z, eps, decVars, trace, fwd_ret>>
    /\ UNCHANGED genVars

\* forward -> reparameterize: eps is whatever randn_like draws.
ReparameterizeCall ==
    /\ pc = "reparameterize"
    /\ trace' = Append(trace, "reparameterize")
    /\ \E e \in EpsVals :
         LET r == Reparameterize(heap, mu, logvar, e)
         IN /\ eps' = e
            /\ heap' = r.heap
            /\ latent_z' = r.ret
    /\ pc' = "decode"
    /\ UNCHANGED <<n_layers, fwdArgs, encVars, mu, logvar, decVars,
                   fwd_ret>>
    /\ UNCHANGED genVars

\* forward -> decode -> decoder_train_step up to "loss = 0".
DecodeInit ==
    /\ pc = "decode"
    /\ trace' = Append(trace, "decode")
    /\ dec_latent' = ForwardDecodeLatent(mu, latent_z)
    /\ dec_hidden' = LatentToHidden(heap[dec_latent'], n_layers)
    /\ dec_stack' = InitStack
    /\ loss' = 0
    /\ loss_terms' = <<>>
    /\ dec_i' = 1
    /\ pc' = "dec_loop"
    /\ UNCHANGED <<n_layers, fwdArgs, encVars, latVars, fwd_ret>>
    /\ UNCHANGED genVars

\* one iteration of "for input_entry, target_entry in zip(...)".
DecodeStep ==
    /\ pc = "dec_loop"
    /\ dec_i <= ZipLen(decoder_seq, target_seq)
    /\ LET r == Cell(decoder_seq[dec_i], dec_hidden, DecoderStepStack(dec_stack))
       IN /\ dec_hidden' = r.hidden
          /\ dec_stack' = r.stack
          /\ loss' = loss + Criterion(r.output, target_seq[dec_i])
          /\ loss_terms' = Append(loss_terms,
                                  [pos |-> dec_i, output |-> r.output,
                                   target |-> target_seq[dec_i]])
    /\ dec_i' = dec_i + 1
    /\ UNCHANGED <<pc, n_layers, fwdArgs, encVars, latVars, dec_latent,
                   trace, fwd_ret>>
    /\ UNCHANGED genVars

\* the loop is over: decoder_train_step, decode and forward return.
ForwardReturn ==
    /\ pc = "dec_loop"
    /\ dec_i > ZipLen(decoder_seq, target_seq)
    /\ fwd_ret' = [decoder_loss |-> loss, mu |-> mu, logvar |-> logvar]
    /\ pc' = "fwd_done"
    /\ UNCHANGED <<n_layers, fwdArgs, encVars, latVars, decVars, trace>>
    /\ UNCHANGED genVars

\* the caller has taken the result; the frames of the call are gone.
ForwardExit ==
    /\ pc = "fwd_done"
    /\ pc' = "idle"
    /\ FwdDiscard
    /\ UNCHANGED n_layers
    /\ UNCHANGED genVars



NextForward ==
    \/ ForwardCall
    \/ EncodeInit
    \/ EncodeStep
    \/ EncodeProject
    \/ ReparameterizeCall
    \/ DecodeInit
    \/ DecodeStep
    \/ ForwardReturn
    \/ ForwardExit

SpecForward == Init /\ [][NextForward]_vars

\* -------------------------------------- StackGRUDecoder.generate_from_latent
\* a latent batch of n elements; the latent of an element is only ever
\* handed to latent_to_hidden, so element b carries the value b.
LatentBatch(n) == [b \in 1..n |-> b]

\* the priming strings: one per length, neighbouring tokens distinct; the
\* tokens of the prime play no part in the control flow.
PrimeOfLen(k) == [l \in 1..k |-> ((l - 1) % VocabSize) + 1]
PrimeInputs == {PrimeOfLen(k) : k \in 1..MaxPrime}

\* prime_input.repeat(batch_size, 1): one copy of the prime per batch element.
Repeat(prime, n) == [b \in 1..n |-> prime]

\* .transpose(1, 0).view(-1, 1, batch_size): one row per prime position.
PrimeRows(rep) ==
    [l \in 1..Len(rep[1]) |-> [b \in 1..Len(rep) |-> rep[b][l]]]

\* prime_input.transpose(0, 2): one sequence per batch element.
PrimeSeqs(rows) ==
    [b \in 1..Len(rows[1]) |-> [l \in 1..Len(rows) |-> rows[l][b]]]

\* torch.cat((generated_seq, top_idx.unsqueeze(2)), dim=2).
CatTokens(seqs, top_idx) == [b \in 1..Len(seqs) |-> Append(seqs[b], top_idx[b])]

\* input_token = top_idx.view(1, -1): the input of the next sampling step.
NextInputToken_stale(top_idx, old_input) == old_input
NextInputToken(top_idx, old_input) == top_idx

\* "if batch_size == 1 and top_idx == end_token: break".
BreakNow_never(n, top_idx, end) == FALSE
BreakNow_anysize(n, top_idx, end) == top_idx[1] = end
BreakNow(n, top_idx, end) == n = 1 /\ top_idx[1] = end

\* ----------------------------------------------------- TeacherVAE.generate
\* takewhile(lambda x: x != end_token, ...): the prefix before the first end.
RECURSIVE TakeWhileNot(_, _)
TakeWhileNot(s, end) ==
    IF s = <<>> \/ Head(s) = end THEN <<>>
    ELSE <<Head(s)>> \o TakeWhileNot(Tail(s), end)

\* molecule.squeeze()[1:] cut at the first end_token.
StripMolecule(molecule, end) == TakeWhileNot(Tail(molecule), end)

\* the generator expression: nothing is computed until it is iterated.
MoleculeGen(batch, end) ==
    [kind |-> "generator", source |-> batch, end |-> end, consumed |-> 0]

\* iter(map(torch.tensor, map(list, molecule_gen))): lazy, and it draws from
\* the same generator object.
MoleculeIter(gen) == [kind |-> "map", source |-> gen.source, end |-> gen.end]

\* len(obj) is defined for sized objects only; a generator has no __len__.
HasLen(obj) == obj.kind \notin {"generator", "map", "zip"}

\* lines 395-399 of generate: number, mol_dict, mol_ds and the return.
\* zip and DataFrame drain molecule_gen, so nothing is left for
\* molecule_iter, and the smiles column holds the takewhile objects.
GenerateTail(gen, it) ==
    IF HasLen(gen)
    THEN [status |-> "returned", exception |-> "",
          yields |-> <<>>,
          table |-> [i \in 1..Len(gen.source) |->
                       [molecule_number |-> i - 1,
                        smiles |-> [kind |-> "takewhile",
                                    source |-> gen.source[i]]]]]
    ELSE [status |-> "raised", exception |-> "TypeError",
          yields |-> <<>>, table |-> <<>>]

GenerateCall ==
    /\ pc = "idle"
    /\ \E n \in 1..MaxBatch : gen_latent' = LatentBatch(n)
    /\ prime_input' \in PrimeInputs
    /\ end_token' \in Vocab
    /\ generate_len' \in 0..MaxGenLen
    /\ pc' = "gfl_init"
    /\ UNCHANGED <<n_layers, fwdVars, gflVars, genLocals>>

\* generate_from_latent up to "generated_seq = prime_input.transpose(0, 2)".
GflInit ==
    /\ pc = "gfl_init"
    /\ gen_hidden' = LatentToHidden(gen_latent, n_layers)
    /\ batch_size' = Len(gen_latent)
    /\ gen_stack' = InitStack
    /\ prime_rows' = PrimeRows(Repeat(prime_input, batch_size'))
    /\ generated_seq' = PrimeSeqs(prime_rows')
    /\ prime_i' = 1
    /\ pc' = "gfl_prime"
    /\ UNCHANGED <<n_layers, fwdVars, genArgs, input_token, step,
                   cell_log, sampled, genLocals>>

\* one iteration of "for prime_entry in prime_input[:-1]".
GflPrimeStep ==
    /\ pc = "gfl_prime"
    /\ prime_i <= Len(prime_rows) - 1
    /\ LET r == Cell(prime_rows[prime_i], gen_hidden, gen_stack)
       IN /\ gen_hidden' = r.hidden
          /\ gen_stack' = r.stack
          /\ cell_log' = Append(cell_log,
                 [phase |-> "prime", input |-> prime_rows[prime_i],
                  hidden |-> gen_hidden, stack |-> gen_stack,
                  hidden_out |-> r.hidden, stack_out |-> r.stack])
    /\ prime_i' = prime_i + 1
    /\ UNCHANGED <<pc, n_layers, fwdVars, genArgs, batch_size,
                   prime_rows, generated_seq, input_token, step, sampled,
                   genLocals>>

\* "input_token = prime_input[-1]" once the priming loop is over.
GflSetInput ==
    /\ pc = "gfl_prime"
    /\ prime_i > Len(prime_rows) - 1
    /\ input_token' = prime_rows[Len(prime_rows)]
    /\ step' = 0
    /\ pc' = "gfl_sample"
    /\ UNCHANGED <<n_layers, fwdVars, genArgs, batch_size, gen_hidden,
                   gen_stack, prime_rows, generated_seq, prime_i, cell_log,
                   sampled, genLocals>>

\* one iteration of "for _ in range(generate_len)"; top_idx is whatever the
\* multinomial draws (every token has a positive weight exp(output / T)).
GflSampleStep ==
    /\ pc = "gfl_sample"
    /\ step < generate_len
    /\ LET r == Cell(input_token, gen_hidden, gen_stack)
       IN /\ gen_hidden' = r.hidden
          /\ gen_stack' = r.stack
          /\ cell_log' = Append(cell_log,
                 [phase |-> "sample", input |-> input_token,
                  hidden |-> gen_hidden, stack |-> gen_stack,
                  hidden_out |-> r.hidden, stack_out |-> r.stack])
    /\ \E top_idx \in Rows(batch_size) :
         /\ generated_seq' = CatTokens(generated_seq, top_idx)
         /\ input_token' = NextInputToken(top_idx, input_token)
         /\ sampled' = Append(sampled, top_idx)
         /\ pc' = IF BreakNow(batch_size, top_idx, end_token)
                  THEN "gfl_done" ELSE "gfl_sample"
    /\ step' = step + 1
    /\ UNCHANGED <<n_layers, fwdVars, genArgs, batch_size, prime_rows,
                   prime_i, genLocals>>

\* range(generate_len) is exhausted.
GflLoopEnd ==
    /\ pc = "gfl_sample"
    /\ step >= generate_len
    /\ pc' = "gfl_done"
    /\ UNCHANGED <<n_layers, fwdVars, genArgs, gflVars, genLocals>>

\* generate_from_latent returns generated_seq; generate builds its lazy
\* molecule_gen, molecule_map and molecule_iter.
GenerateStrip ==
    /\ pc = "gfl_done"
    /\ generated_batch' = generated_seq
    /\ molecule_gen' = MoleculeGen(generated_batch', end_token)
    /\ molecule_iter' = MoleculeIter(molecule_gen')
    /\ pc' = "gen_number"
    /\ UNCHANGED <<n_layers, fwdVars, genArgs, gflVars, gen_ret>>

\* "number = np.arange(len(molecule_gen))" and the rest of generate.
GenerateNumber ==
    /\ pc = "gen_number"
    /\ gen_ret' = GenerateTail(molecule_gen, molecule_iter)
    /\ pc' = "gen_done"
    /\ UNCHANGED <<n_layers, fwdVars, genArgs, gflVars,
                   generated_batch, molecule_gen, molecule_iter>>

\* the caller has seen how generate ended; the frames of the call are gone.
GenerateExit ==
    /\ pc = "gen_done"
    /\ pc' = "idle"
    /\ GenDiscard
    /\ UNCHANGED <<n_layers, fwdVars>>

NextGenerate ==
    \/ GenerateCall
    \/ GflInit
    \/ GflPrimeStep
    \/ GflSetInput
    \/ GflSampleStep
    \/ GflLoopEnd
    \/ GenerateStrip
    \/ GenerateNumber
    \/ GenerateExit

SpecGenerate == Init /\ [][NextGenerate]_vars

Next == NextForward \/ NextGenerate
Spec == Init /\ [][Next]_vars

\* ===================================================== TeacherVAE.forward
AfterReparameterize == pc \in {"decode", "dec_loop", "fwd_done"}
InDecoder == pc \in {"dec_loop", "fwd_done"}

\* C7: encoder_train_step starts every call from a fresh hidden state and
\* stack, calls the cell exactly once per entry of input_seq, in order and
\* threading (hidden, stack), and computes mu and logvar from the same final
\* hidden state of the last layer; the result depends on input_seq only.
EncoderFreshRunOverInput ==
    /\ pc = "enc_loop" =>
         LET r == RunCell(input_seq, enc_i - 1, InitHidden(n_layers), InitStack)
         IN /\ enc_i \in 1..(Len(input_seq) + 1)
            /\ enc_hidden = r.hidden
            /\ enc_stack = r.stack
            /\ enc_hidden.fed = SubSeq(input_seq, 1, enc_i - 1)
    /\ pc = "reparameterize" =>
         LET r == RunCell(input_seq, Len(input_seq), InitHidden(n_layers),
                          InitStack)
             last == LayerOf(r.hidden, n_layers)
         IN /\ enc_hidden.fed = input_seq
            /\ enc_stack = r.stack
            /\ enc_out.from = last
            /\ enc_out.mu = HiddenToMu(last)
            /\ enc_out.logvar = HiddenToLogvar(last)

\* the encoder has run over an input of two different rows or more in a
\* network of more than one layer.
EncoderRanOverInput ==
    /\ pc = "reparameterize"
    /\ n_layers >= 2
    /\ Len(input_seq) >= 2
    /\ input_seq[1] # input_seq[2]

\* C6: decoder_train_step starts the loss at 0 and, for each position in
\* order, calls the cell once on input_seq[i] with the hidden state and stack
\* of the previous call (initially latent_to_hidden(latent_z) and a fresh
\* stack) and adds criterion(output_i, target_seq[i]); the returned loss is
\* the sum over all target positions, one term per target token.
\* the cell results of positions 1..k of inp, from hidden state h0 and a
\* fresh stack, each call taking the state the one before returned.
RECURSIVE CellResults(_, _, _)
CellResults(inp, k, h0) ==
    IF k = 0 THEN <<>>
    ELSE LET before == CellResults(inp, k - 1, h0)
             h == IF k = 1 THEN h0 ELSE before[k - 1].hidden
             st == IF k = 1 THEN InitStack ELSE before[k - 1].stack
         IN Append(before, Cell(inp[k], h, st))

RECURSIVE SumOfTerms(_, _, _)
SumOfTerms(results, tgt, k) ==
    IF k = 0 THEN 0
    ELSE SumOfTerms(results, tgt, k - 1) + Criterion(results[k].output, tgt[k])

ForwardStages == <<"encode", "reparameterize", "decode">>

ForwardStagesInOrder ==
    /\ Len(trace) <= Len(ForwardStages)
    /\ trace = SubSeq(ForwardStages, 1, Len(trace))
    /\ InDecoder =>
         /\ dec_latent = latent_z
         /\ dec_latent # mu
         /\ dec_hidden.init
              = TensorAdd(enc_out.mu,
                          TensorMul(eps, TensorExpHalf(enc_out.logvar)))
    /\ pc = "fwd_done" =>
         /\ trace = ForwardStages
         /\ fwd_ret.decoder_loss = loss
         /\ fwd_ret.mu = mu
         /\ fwd_ret.logvar = logvar
         /\ heap[fwd_ret.mu] = enc_out.mu
         /\ heap[fwd_ret.logvar] = enc_out.logvar

\* forward has returned from a call in which z differs from mu.
ForwardReturnedWithNoise ==
    /\ pc = "fwd_done"
    /\ trace = ForwardStages
    /\ dec_hidden.init # enc_out.mu
    /\ Len(decoder_seq) >= 1

\* C10: reparameterize leaves mu and logvar unchanged (add_ writes into the
\* new eps * std tensor), so forward returns the encoder's mu and logvar;
\* the result is mu + eps * std elementwise, and mu itself when eps is 0.
ReparameterizeLeavesArgs ==
    AfterReparameterize =>
        /\ heap[mu] = enc_out.mu
        /\ heap[logvar] = enc_out.logvar
        /\ latent_z \notin {mu, logvar}
        /\ \A d \in 1..LatentDim :
             heap[latent_z][d]
               = enc_out.mu[d] + eps[d] * Pow2(enc_out.logvar[d])
        /\ eps = Zeros => heap[latent_z] = enc_out.mu
        /\ pc = "fwd_done" =>
             /\ heap[fwd_ret.mu] = enc_out.mu
             /\ heap[fwd_ret.logvar] = enc_out.logvar

\* reparameterize has added non-zero noise with a std above 1.
ReparameterizeAddedNoise ==
    /\ pc = "decode"
    /\ \E d \in 1..LatentDim : eps[d] # 0 /\ enc_out.logvar[d] > 0
    /\ heap[latent_z] # heap[mu]

\* reparameterize has run with eps = 0.
ReparameterizeZeroNoise ==
    /\ pc = "decode"
    /\ eps = Zeros
    /\ heap[latent_z] = heap[mu]

\* ======================================= generate_from_latent and generate
InGeneration == pc \in {"gfl_prime", "gfl_sample", "gfl_done"}
SampleCalls == {j \in 1..Len(cell_log) : cell_log[j].phase = "sample"}
PrimeRow(l) == [b \in 1..batch_size |-> prime_input[l]]
SampledColumn(b) == [k \in 1..Len(sampled) |-> sampled[k][b]]
FirstEnd(col, end) ==
    IF \E k \in 1..Len(col) : col[k] = end
    THEN CHOOSE k \in 1..Len(col) :
           col[k] = end /\ \A j \in 1..(k - 1) : col[j] # end
    ELSE 0

\* C5: generation is autoregressive: the prime tokens but the last are fed
\* to the cell once each, in order, before any sampling; the first sampling
\* step takes the last prime token; every later sampling step takes the
\* token sampled just before; hidden state and stack pass from each cell
\* call to the next; sampled tokens are appended in the order sampled.
GenerationIsAutoregressive ==
    InGeneration =>
        LET L == Len(prime_input)
            n == Len(cell_log)
        IN /\ n = IF pc = "gfl_prime" THEN prime_i - 1 ELSE L - 1 + step
           /\ Len(sampled) = step
           /\ pc = "gfl_prime" => step = 0 /\ prime_i \in 1..L
           /\ \A j \in 1..n :
                /\ cell_log[j].phase = IF j <= L - 1 THEN "prime" ELSE "sample"
                /\ cell_log[j].input
                     = IF j <= L THEN PrimeRow(j) ELSE sampled[j - L]
                /\ cell_log[j].hidden
                     = IF j = 1 THEN LatentToHidden(gen_latent, n_layers)
                       ELSE cell_log[j - 1].hidden_out
                /\ cell_log[j].stack
                     = IF j = 1 THEN InitStack ELSE cell_log[j - 1].stack_out
           /\ n >= 1 => /\ gen_hidden = cell_log[n].hidden_out
                        /\ gen_stack = cell_log[n].stack_out
           /\ \A b \in 1..batch_size :
                generated_seq[b] = prime_input \o SampledColumn(b)

\* two sampling steps after a two-token prime, the second fed a token that
\* differs from the last prime token.
SampledTwiceAfterPrime ==
    /\ pc = "gfl_done"
    /\ Len(prime_input) = 2
    /\ Len(sampled) >= 2
    /\ sampled[1] # PrimeRow(2)
    /\ cell_log[3].input = sampled[1]

SingleRanToTheEnd ==
    /\ pc = "gfl_done"
    /\ batch_size = 1
    /\ generate_len >= 2
    /\ step = generate_len
    /\ \A k \in 1..step : sampled[k][1] # end_token

\* C9: with batch_size > 1 the loop never stops early: it takes exactly
\* generate_len sampling steps for every element, also after an element has
\* sampled end_token, so all returned sequences have the same length.
BatchNeverStopsEarly ==
    batch_size > 1 /\ pc = "gfl_done" =>
        /\ step = generate_len
        /\ Cardinality(SampleCalls) = generate_len
        /\ \A b \in 1..batch_size :
             Len(generated_seq[b]) = Len(prime_input) + generate_len
        /\ \A k \in 1..generate_len : Len(sampled[k]) = batch_size

\* a batch of two went on sampling after an element sampled end_token.
BatchSampledPastEnd ==
    /\ pc = "gfl_done"
    /\ batch_size > 1
    /\ Len(sampled) >= 2
    /\ sampled[1][1] = end_token

\* C3: generate_from_latent returns sequences of length generate_len +
\* len(prime_input): the prime tokens in order, then generate_len sampled
\* tokens, for every batch size and every outcome of the sampling.
ReturnedLengthIsFull ==
    pc = "gfl_done" =>
        \A b \in 1..batch_size :
            /\ Len(generated_seq[b]) = generate_len + Len(prime_input)
            /\ SubSeq(generated_seq[b], 1, Len(prime_input)) = prime_input

\* C1: generate completes without raising and returns (iterator, table):
\* the iterator yields one sequence per batch element, in batch order; the
\* table has rows molecule_number 0..n-1, row i holding the molecule the
\* iterator yields for element i.
GenerateReturnsIteratorAndTable ==
    pc = "gen_done" =>
        /\ gen_ret.status = "returned"
        /\ Len(gen_ret.yields) = batch_size
        /\ Len(gen_ret.table) = batch_size
        /\ \A i \in 1..batch_size :
             /\ gen_ret.table[i].molecule_number = i - 1
             /\ gen_ret.table[i].smiles = gen_ret.yields[i]

\* C2: the molecule generate yields for a generated sequence is the sequence
\* without its first position, cut before the first end_token: it holds no
\* end_token, and it is the whole rest when the sequence has no end_token.
GenerateYieldsStrippedMolecules ==
    pc = "gen_done" =>
        \A i \in 1..Len(generated_batch) :
            /\ i \in DOMAIN gen_ret.yields
            /\ gen_ret.yields[i] = StripMolecule(generated_batch[i], end_token)
            /\ \A k \in DOMAIN gen_ret.yields[i] :
                 gen_ret.yields[i][k] # end_token
====
